---- MODULE Spec2Model ----
(***************************************************************************)
(* Phase-2 parameter generation of the setup ceremony:                     *)
(* setup2/src/cli/new.rs (new, ceremony_size, generate_params_chunked).    *)
(*                                                                         *)
(* One run of `new` is modelled statement by statement.  File names and    *)
(* file contents are sequences (of characters, of abstract bytes), the     *)
(* file system is a function from the names of the existing files to       *)
(* their contents.  A failing statement either returns Err (the `?`        *)
(* operator) or panics (`expect`, `unwrap`), as the source writes it.      *)
(***************************************************************************)
EXTENDS Integers, Sequences, FiniteSets, TLC

\* ------------------------------------------------------------------ bounds
MaxConstraints == 3
MaxVars == 2
MaxPowers == 3
MaxChunkSize == 3
MaxChunks == 2

\* --------------------------------------------------------- string literals
S_phase1 == <<"p", "h", "a", "s", "e", "1">>
S_challenge == <<"c", "h", "a", "l", "l", "e", "n", "g", "e">>
S_verified_hash == S_challenge \o <<".", "v", "e", "r", "i", "f", "i", "e", "d", ".", "h", "a", "s", "h">>
S_pot == <<"p", "o", "t">>
S_out == <<"o", "u", "t">>
S_full == <<"f", "u", "l", "l">>
S_query == <<"q", "u", "e", "r", "y">>
Dot == <<".">>
NL == <<"\n">>

DigitChar == <<"0", "1", "2", "3", "4", "5", "6", "7", "8", "9">>

RECURSIVE Display(_)
\* "{}" applied to a usize: its decimal digits
Display(n) == IF n < 10 THEN <<DigitChar[n + 1]>>
              ELSE Display(n \div 10) \o <<DigitChar[(n % 10) + 1]>>

\* format!("{}.full", stem), format!("{}.query", stem)
FullName(stem) == stem \o Dot \o S_full
QueryName(stem) == stem \o Dot \o S_query
\* format!("{}.{}", stem, i): the file chunk i is written to
ChunkName(stem, i) == stem \o Dot \o Display(i)
\* format!("{}.{}\n", stem, i): the line appended to the chunk list
ChunkLine(stem, i) == stem \o Dot \o Display(i) \o NL
\* the chunk list is created under a fixed name
ChunkListName == S_phase1
\* format!("{}.{}\n", hash_stem, "query"): the name the hash file is created under
HashFileName(stem) == stem \o Dot \o S_query \o NL

\* the UTF-8 code of each character the names are written with
Utf8 == ("a" :> 97) @@ ("b" :> 98) @@ ("c" :> 99) @@ ("d" :> 100) @@ ("e" :> 101) @@ ("f" :> 102)
        @@ ("g" :> 103) @@ ("h" :> 104) @@ ("i" :> 105) @@ ("j" :> 106) @@ ("k" :> 107) @@ ("l" :> 108)
        @@ ("m" :> 109) @@ ("n" :> 110) @@ ("o" :> 111) @@ ("p" :> 112) @@ ("q" :> 113) @@ ("r" :> 114)
        @@ ("s" :> 115) @@ ("t" :> 116) @@ ("u" :> 117) @@ ("v" :> 118) @@ ("w" :> 119) @@ ("x" :> 120)
        @@ ("y" :> 121) @@ ("z" :> 122) @@ ("0" :> 48) @@ ("1" :> 49) @@ ("2" :> 50) @@ ("3" :> 51)
        @@ ("4" :> 52) @@ ("5" :> 53) @@ ("6" :> 54) @@ ("7" :> 55) @@ ("8" :> 56) @@ ("9" :> 57)
        @@ ("." :> 46) @@ ("\n" :> 10)

\* str::as_bytes
as_bytes(str) == [k \in 1..Len(str) |-> Utf8[str[k]]]

\* ------------------------------------------------------------- arithmetic
Max(a, b) == IF a >= b THEN a ELSE b
Min(a, b) == IF a <= b THEN a ELSE b

RECURSIVE Pow2(_)
Pow2(n) == IF n = 0 THEN 1 ELSE 2 * Pow2(n - 1)

RECURSIVE FloorLog2(_)
FloorLog2(x) == IF x <= 1 THEN 0 ELSE 1 + FloorLog2(x \div 2)

IsPowerOfTwo(x) == x >= 1 /\ Pow2(FloorLog2(x)) = x

CeilLog2(x) == IF IsPowerOfTwo(x) THEN FloorLog2(x) ELSE FloorLog2(x) + 1

\* setup_utils::log_2 is not among the sources; the two roundings a base-2
\* logarithm of an integer can have are both kept (variable log2_rounding).
Log2Roundings == {"floor", "ceil"}
log_2_as(rounding, x) == IF rounding = "floor" THEN FloorLog2(x) ELSE CeilLog2(x)

\* the circuit counts ConstraintCounter ends with
Circuits == [num_constraints : 0..MaxConstraints,
             num_public_variables : 0..MaxVars,
             num_private_variables : 0..MaxVars]

Required(c) == Max(c.num_constraints, c.num_private_variables + c.num_public_variables + 1)

\* ceremony_size, lines 158-169
ceremony_size_of(rounding, c) ==
    LET phase2_size == Required(c)
        power == log_2_as(rounding, phase2_size)
    IN  IF phase2_size < Pow2(power) THEN Pow2(power + 1) ELSE phase2_size

\* ------------------------------------- collaborators outside new.rs
\* The phase-1 transcript on disk: one element per power
TranscriptBytes(powers) == [k \in 1..Pow2(powers) |-> (k % 3) + 1]

\* ChunkPlanner: ceil(total / chunk_size) ranges
NumChunks(total, chunk_size) == (total + chunk_size - 1) \div chunk_size
ChunkStart(idx, chunk_size) == idx * chunk_size
ChunkEnd(idx, total, chunk_size) == Min((idx + 1) * chunk_size, total)

\* MPCParameters::new_from_buffer_chunked fails on an undersized transcript
\* and on a zero chunk size
GeneratorRejects(phase1_size, phase2_size, chunk_size) ==
    phase1_size < phase2_size \/ chunk_size = 0

\* the full parameter set: a linear transform of the first phase2_size powers
FullParameters(c, transcript, phase2_size) ==
    [k \in 1..phase2_size |-> (transcript[k] * (c.num_constraints + 1)) % 4]

\* the query parameters: the subset of the full set needed at proving time
QueryParameters(full) == [k \in 1..((Len(full) + 1) \div 2) |-> full[2 * k - 1]]

\* the chunks: the slices of the full set the planner's ranges select
ChunkParameters(full, chunk_size) ==
    [j \in 1..NumChunks(Len(full), chunk_size) |->
        SubSeq(full, ChunkStart(j - 1, chunk_size) + 1, ChunkEnd(j - 1, Len(full), chunk_size))]

new_from_buffer_chunked(c, transcript, phase1_size, phase2_size, chunk_size) ==
    LET full == FullParameters(c, transcript, phase2_size)
    IN  [full |-> full, query |-> QueryParameters(full), chunks |-> ChunkParameters(full, chunk_size)]

\* the canonical serialization: a length header, then the elements
Serialize(p) == <<Len(p)>> \o p

RECURSIVE SumSeq(_)
SumSeq(s) == IF s = <<>> THEN 0 ELSE Head(s) + SumSeq(Tail(s))

\* calculate_hash: a fixed-length digest of a byte sequence
calculate_hash(bytes) == <<SumSeq(bytes) % 5, Len(bytes) % 3>>

\* ------------------------------------------------------------------ state
VARIABLES
    opt,                          \* NewOpts
    circuit,                      \* the counts the circuit reports
    log2_rounding,                \* the rounding of setup_utils::log_2
    pc,                           \* the statement the run is at
    result,                       \* "none", "Ok", "Err" or "panic"
    files,                        \* the file system: name -> content
    created,                      \* the names File::create has created, in order
    phase1_transcript,            \* "closed", "open" or "mapped"
    phase2_size,                  \* let phase2_size
    size_calls,                   \* how many times ceremony_size has run
    generator_arg,                \* the ceremony size handed to the generator
    mpc,                          \* what the generator returned
    serialized_mpc_parameters,
    serialized_query_parameters,
    contribution_hash,
    i,                            \* the index of the chunk loop
    serialized_chunk,
    short_writes                  \* writes to the chunk list that wrote less than asked

vars == <<opt, circuit, log2_rounding, pc, result, files, created, phase1_transcript,
          phase2_size, size_calls, generator_arg, mpc, serialized_mpc_parameters,
          serialized_query_parameters, contribution_hash, i, serialized_chunk, short_writes>>

\* NewOpts: the file-name options, defaults first
OptNames == {
    [challenge_fname |-> S_challenge, challenge_hash_fname |-> S_verified_hash, phase1_fname |-> S_phase1],
    [challenge_fname |-> S_out, challenge_hash_fname |-> S_out, phase1_fname |-> S_pot] }

NewOpts == { [is_inner |-> in, chunk_size |-> cs, phase1_powers |-> pw,
              challenge_fname |-> names.challenge_fname,
              challenge_hash_fname |-> names.challenge_hash_fname,
              phase1_fname |-> names.phase1_fname] :
             in \in {"true", "false"}, cs \in 0..MaxChunkSize, pw \in 0..MaxPowers, names \in OptNames }

NoParameters == [full |-> <<>>, query |-> <<>>, chunks |-> <<>>]

\* the chunk loop is kept to MaxChunks iterations
WithinBounds(o, c, rounding) ==
    o.chunk_size > 0 => NumChunks(ceremony_size_of(rounding, c), o.chunk_size) <= MaxChunks

Init ==
    /\ opt \in NewOpts
    /\ circuit \in Circuits
    /\ log2_rounding \in Log2Roundings
    /\ WithinBounds(opt, circuit, log2_rounding)
    /\ pc = "new"
    /\ result = "none"
    /\ files = (opt.phase1_fname :> TranscriptBytes(opt.phase1_powers))
    /\ created = <<>>
    /\ phase1_transcript = "closed"
    /\ phase2_size = 0
    /\ size_calls = 0
    /\ generator_arg = 0
    /\ mpc = NoParameters
    /\ serialized_mpc_parameters = <<>>
    /\ serialized_query_parameters = <<>>
    /\ contribution_hash = <<>>
    /\ i = 0
    /\ serialized_chunk = <<>>
    /\ short_writes = 0

\* ---------------------------------------------------------------- helpers
\* a statement fails: `?` returns Err to the caller, expect and unwrap panic
\* pc stays at the statement that failed
Ends(how) == /\ result' = how
             /\ UNCHANGED pc

Goes(next) == /\ pc' = next
              /\ UNCHANGED result

\* File::create: the file exists and is empty afterwards
Create(name) == /\ files' = [n \in DOMAIN files \cup {name} |-> IF n = name THEN <<>> ELSE files[n]]
                /\ created' = Append(created, name)

\* write_all on a handle just created: everything is written, or the call
\* fails with part of the buffer written
WriteAll(name, buf) == files' = [files EXCEPT ![name] = buf]
WritePart(name, buf) == \E n \in 0..(Len(buf) - 1) : files' = [files EXCEPT ![name] = SubSeq(buf, 1, n)]

At(here) == pc = here /\ result = "none"

\* ------------------------------------------------------------- new (111-144)
\* is_inner == "true": the inner circuit, no fallible step
NewInner ==
    /\ At("new")
    /\ opt.is_inner = "true"
    /\ Goes("open")
    /\ UNCHANGED <<opt, circuit, log2_rounding, files, created, phase1_transcript, phase2_size,
                   size_calls, generator_arg, mpc, serialized_mpc_parameters,
                   serialized_query_parameters, contribution_hash, i, serialized_chunk, short_writes>>

\* otherwise the outer circuit is built; load, find_circuit_by_index,
\* execute_blank, setup and prove each return Err through `?`
NewOuter ==
    /\ At("new")
    /\ opt.is_inner # "true"
    /\ \/ Ends("Err")
       \/ Goes("open")
    /\ UNCHANGED <<opt, circuit, log2_rounding, files, created, phase1_transcript, phase2_size,
                   size_calls, generator_arg, mpc, serialized_mpc_parameters,
                   serialized_query_parameters, contribution_hash, i, serialized_chunk, short_writes>>

\* ------------------------------------- generate_params_chunked (172-248)
\* 177-181: OpenOptions::new().read(true).write(true).open(phase1_fname).expect(..)
OpenTranscript ==
    /\ At("open")
    /\ \/ /\ opt.phase1_fname \in DOMAIN files
          /\ phase1_transcript' = "open"
          /\ Goes("map")
       \/ /\ Ends("panic")
          /\ UNCHANGED phase1_transcript
    /\ UNCHANGED <<opt, circuit, log2_rounding, files, created, phase2_size,
                   size_calls, generator_arg, mpc, serialized_mpc_parameters,
                   serialized_query_parameters, contribution_hash, i, serialized_chunk, short_writes>>

\* 182-186: MmapOptions::new().map_mut(&phase1_transcript).expect(..)
MapTranscript ==
    /\ At("map")
    /\ \/ /\ phase1_transcript' = "mapped"
          /\ Goes("size")
       \/ /\ Ends("panic")
          /\ UNCHANGED phase1_transcript
    /\ UNCHANGED <<opt, circuit, log2_rounding, files, created, phase2_size,
                   size_calls, generator_arg, mpc, serialized_mpc_parameters,
                   serialized_query_parameters, contribution_hash, i, serialized_chunk, short_writes>>

\* 187, 148-170: let phase2_size = ceremony_size(&circuit); generate_constraints
\* is followed by expect
ceremony_size ==
    /\ At("size")
    /\ size_calls' = size_calls + 1
    /\ \/ /\ phase2_size' = ceremony_size_of(log2_rounding, circuit)
          /\ Goes("generate")
       \/ /\ Ends("panic")
          /\ UNCHANGED phase2_size
    /\ UNCHANGED <<opt, circuit, log2_rounding, files, created, phase1_transcript,
                   generator_arg, mpc, serialized_mpc_parameters,
                   serialized_query_parameters, contribution_hash, i, serialized_chunk, short_writes>>

\* Generate with the generator's error dropped (unwrap_or_default in place of
\* unwrap): a rejected call goes on with empty parameters
Generate_ErrorDropped ==
    /\ At("generate")
    /\ generator_arg' = phase2_size
    /\ \/ /\ ~GeneratorRejects(Pow2(opt.phase1_powers), phase2_size, opt.chunk_size)
          /\ mpc' = new_from_buffer_chunked(circuit, files[opt.phase1_fname],
                                            Pow2(opt.phase1_powers), phase2_size, opt.chunk_size)
          /\ Goes("serialize_full")
       \/ /\ GeneratorRejects(Pow2(opt.phase1_powers), phase2_size, opt.chunk_size)
          /\ mpc' = NoParameters
          /\ Goes("serialize_full")
    /\ UNCHANGED <<opt, circuit, log2_rounding, files, created, phase1_transcript, phase2_size,
                   size_calls, serialized_mpc_parameters,
                   serialized_query_parameters, contribution_hash, i, serialized_chunk, short_writes>>

\* Generate with 1 << phase1_powers passed in both size arguments
Generate_Phase1SizeTwice ==
    /\ At("generate")
    /\ generator_arg' = Pow2(opt.phase1_powers)
    /\ \/ /\ ~GeneratorRejects(Pow2(opt.phase1_powers), Pow2(opt.phase1_powers), opt.chunk_size)
          /\ mpc' = new_from_buffer_chunked(circuit, files[opt.phase1_fname],
                                            Pow2(opt.phase1_powers), Pow2(opt.phase1_powers),
                                            opt.chunk_size)
          /\ Goes("serialize_full")
       \/ /\ Ends("panic")
          /\ UNCHANGED mpc
    /\ UNCHANGED <<opt, circuit, log2_rounding, files, created, phase1_transcript, phase2_size,
                   size_calls, serialized_mpc_parameters,
                   serialized_query_parameters, contribution_hash, i, serialized_chunk, short_writes>>

\* 191-200: MPCParameters::new_from_buffer_chunked(circuit, &mut phase1_transcript,
\* No, No, 1 << phase1_powers, phase2_size, chunk_size).unwrap()
Generate ==
    /\ At("generate")
    /\ generator_arg' = phase2_size
    /\ \/ /\ ~GeneratorRejects(Pow2(opt.phase1_powers), phase2_size, opt.chunk_size)
          /\ mpc' = new_from_buffer_chunked(circuit, files[opt.phase1_fname],
                                            Pow2(opt.phase1_powers), phase2_size, opt.chunk_size)
          /\ Goes("serialize_full")
       \/ /\ Ends("panic")
          /\ UNCHANGED mpc
    /\ UNCHANGED <<opt, circuit, log2_rounding, files, created, phase1_transcript, phase2_size,
                   size_calls, serialized_mpc_parameters,
                   serialized_query_parameters, contribution_hash, i, serialized_chunk, short_writes>>

\* 202-203: full_mpc_parameters.write(&mut serialized_mpc_parameters).unwrap()
SerializeFull ==
    /\ At("serialize_full")
    /\ \/ /\ serialized_mpc_parameters' = Serialize(mpc.full)
          /\ Goes("serialize_query")
       \/ /\ Ends("panic")
          /\ UNCHANGED serialized_mpc_parameters
    /\ UNCHANGED <<opt, circuit, log2_rounding, files, created, phase1_transcript, phase2_size,
                   size_calls, generator_arg, mpc,
                   serialized_query_parameters, contribution_hash, i, serialized_chunk, short_writes>>

\* 205-210: query_parameters.serialize(&mut serialized_query_parameters).unwrap()
SerializeQuery ==
    /\ At("serialize_query")
    /\ \/ /\ serialized_query_parameters' = Serialize(mpc.query)
          /\ Goes("create_full")
       \/ /\ Ends("panic")
          /\ UNCHANGED serialized_query_parameters
    /\ UNCHANGED <<opt, circuit, log2_rounding, files, created, phase1_transcript, phase2_size,
                   size_calls, generator_arg, mpc, serialized_mpc_parameters,
                   contribution_hash, i, serialized_chunk, short_writes>>

\* 213-214: File::create(format!("{}.full", challenge_fname)).expect(..)
CreateFull ==
    /\ At("create_full")
    /\ \/ /\ Create(FullName(opt.challenge_fname))
          /\ Goes("write_full")
       \/ /\ Ends("panic")
          /\ UNCHANGED <<files, created>>
    /\ UNCHANGED <<opt, circuit, log2_rounding, phase1_transcript, phase2_size,
                   size_calls, generator_arg, mpc, serialized_mpc_parameters,
                   serialized_query_parameters, contribution_hash, i, serialized_chunk, short_writes>>

\* 215-216: .write_all(&serialized_mpc_parameters).expect(..)
WriteFull ==
    /\ At("write_full")
    /\ \/ /\ WriteAll(FullName(opt.challenge_fname), serialized_mpc_parameters)
          /\ Goes("hash")
       \/ /\ WritePart(FullName(opt.challenge_fname), serialized_mpc_parameters)
          /\ Ends("panic")
    /\ UNCHANGED <<opt, circuit, log2_rounding, created, phase1_transcript, phase2_size,
                   size_calls, generator_arg, mpc, serialized_mpc_parameters,
                   serialized_query_parameters, contribution_hash, i, serialized_chunk, short_writes>>

\* Hash with the query serialization hashed in place of the full one
Hash_OfQuery ==
    /\ At("hash")
    /\ contribution_hash' = calculate_hash(serialized_query_parameters)
    /\ Goes("create_query")
    /\ UNCHANGED <<opt, circuit, log2_rounding, files, created, phase1_transcript, phase2_size,
                   size_calls, generator_arg, mpc, serialized_mpc_parameters,
                   serialized_query_parameters, i, serialized_chunk, short_writes>>

\* 218: calculate_hash(&serialized_mpc_parameters)
Hash ==
    /\ At("hash")
    /\ contribution_hash' = calculate_hash(serialized_mpc_parameters)
    /\ Goes("create_query")
    /\ UNCHANGED <<opt, circuit, log2_rounding, files, created, phase1_transcript, phase2_size,
                   size_calls, generator_arg, mpc, serialized_mpc_parameters,
                   serialized_query_parameters, i, serialized_chunk, short_writes>>

\* 221-222: File::create(format!("{}.query", challenge_fname)).expect(..)
CreateQuery ==
    /\ At("create_query")
    /\ \/ /\ Create(QueryName(opt.challenge_fname))
          /\ Goes("write_query")
       \/ /\ Ends("panic")
          /\ UNCHANGED <<files, created>>
    /\ UNCHANGED <<opt, circuit, log2_rounding, phase1_transcript, phase2_size,
                   size_calls, generator_arg, mpc, serialized_mpc_parameters,
                   serialized_query_parameters, contribution_hash, i, serialized_chunk, short_writes>>

\* 223-224: .write_all(&serialized_query_parameters).expect(..)
WriteQuery ==
    /\ At("write_query")
    /\ \/ /\ WriteAll(QueryName(opt.challenge_fname), serialized_query_parameters)
          /\ Goes("create_list")
       \/ /\ WritePart(QueryName(opt.challenge_fname), serialized_query_parameters)
          /\ Ends("panic")
    /\ UNCHANGED <<opt, circuit, log2_rounding, created, phase1_transcript, phase2_size,
                   size_calls, generator_arg, mpc, serialized_mpc_parameters,
                   serialized_query_parameters, contribution_hash, i, serialized_chunk, short_writes>>

\* 228: for (i, chunk) in all_mpc_parameters.iter().enumerate()
LoopNext(k) == IF k < Len(mpc.chunks) THEN "serialize_chunk" ELSE "create_hash"

\* 226: File::create("phase1").expect(..)
CreateList ==
    /\ At("create_list")
    /\ \/ /\ Create(ChunkListName)
          /\ Goes(LoopNext(0))
       \/ /\ Ends("panic")
          /\ UNCHANGED <<files, created>>
    /\ UNCHANGED <<opt, circuit, log2_rounding, phase1_transcript, phase2_size,
                   size_calls, generator_arg, mpc, serialized_mpc_parameters,
                   serialized_query_parameters, contribution_hash, i, serialized_chunk, short_writes>>

\* 229-230: chunk.write(&mut serialized_chunk).expect(..)
SerializeChunk ==
    /\ At("serialize_chunk")
    /\ \/ /\ serialized_chunk' = Serialize(mpc.chunks[i + 1])
          /\ Goes("create_chunk")
       \/ /\ Ends("panic")
          /\ UNCHANGED serialized_chunk
    /\ UNCHANGED <<opt, circuit, log2_rounding, files, created, phase1_transcript, phase2_size,
                   size_calls, generator_arg, mpc, serialized_mpc_parameters,
                   serialized_query_parameters, contribution_hash, i, short_writes>>

\* 231-232: File::create(format!("{}.{}", challenge_fname, i)).expect(..)
CreateChunk ==
    /\ At("create_chunk")
    /\ \/ /\ Create(ChunkName(opt.challenge_fname, i))
          /\ Goes("write_chunk")
       \/ /\ Ends("panic")
          /\ UNCHANGED <<files, created>>
    /\ UNCHANGED <<opt, circuit, log2_rounding, phase1_transcript, phase2_size,
                   size_calls, generator_arg, mpc, serialized_mpc_parameters,
                   serialized_query_parameters, contribution_hash, i, serialized_chunk, short_writes>>

\* 233-234: .write_all(&serialized_chunk).expect(..)
WriteChunk ==
    /\ At("write_chunk")
    /\ \/ /\ WriteAll(ChunkName(opt.challenge_fname, i), serialized_chunk)
          /\ Goes("write_list")
       \/ /\ WritePart(ChunkName(opt.challenge_fname, i), serialized_chunk)
          /\ Ends("panic")
    /\ UNCHANGED <<opt, circuit, log2_rounding, created, phase1_transcript, phase2_size,
                   size_calls, generator_arg, mpc, serialized_mpc_parameters,
                   serialized_query_parameters, contribution_hash, i, serialized_chunk, short_writes>>

\* 235-237: challenge_list_file.write(format!("{}.{}\n", challenge_fname, i).as_bytes())
\* .expect(..): one call of Write::write, which writes n <= len bytes and
\* returns Ok(n); the count is dropped
WriteList ==
    /\ At("write_list")
    /\ \/ \E n \in 0..Len(ChunkLine(opt.challenge_fname, i)) :
            /\ files' = [files EXCEPT ![ChunkListName] =
                            @ \o SubSeq(as_bytes(ChunkLine(opt.challenge_fname, i)), 1, n)]
            /\ short_writes' = IF n < Len(ChunkLine(opt.challenge_fname, i))
                               THEN short_writes + 1 ELSE short_writes
            /\ i' = i + 1
            /\ Goes(LoopNext(i + 1))
       \/ /\ Ends("panic")
          /\ UNCHANGED <<files, short_writes, i>>
    /\ UNCHANGED <<opt, circuit, log2_rounding, created, phase1_transcript, phase2_size,
                   size_calls, generator_arg, mpc, serialized_mpc_parameters,
                   serialized_query_parameters, contribution_hash, serialized_chunk>>

\* 240-241: File::create(format!("{}.{}\n", challenge_hash_fname, "query")).expect(..)
CreateHash ==
    /\ At("create_hash")
    /\ \/ /\ Create(HashFileName(opt.challenge_hash_fname))
          /\ Goes("write_hash")
       \/ /\ Ends("panic")
          /\ UNCHANGED <<files, created>>
    /\ UNCHANGED <<opt, circuit, log2_rounding, phase1_transcript, phase2_size,
                   size_calls, generator_arg, mpc, serialized_mpc_parameters,
                   serialized_query_parameters, contribution_hash, i, serialized_chunk, short_writes>>

\* 242-243: .write_all(&contribution_hash).expect(..)
WriteHash ==
    /\ At("write_hash")
    /\ \/ /\ WriteAll(HashFileName(opt.challenge_hash_fname), contribution_hash)
          /\ Goes("finish")
       \/ /\ WritePart(HashFileName(opt.challenge_hash_fname), contribution_hash)
          /\ Ends("panic")
    /\ UNCHANGED <<opt, circuit, log2_rounding, created, phase1_transcript, phase2_size,
                   size_calls, generator_arg, mpc, serialized_mpc_parameters,
                   serialized_query_parameters, contribution_hash, i, serialized_chunk, short_writes>>

\* 245-247: println!(..) panics when stdout cannot be written; Ok(())
Finish ==
    /\ At("finish")
    /\ \/ Ends("Ok")
       \/ Ends("panic")
    /\ UNCHANGED <<opt, circuit, log2_rounding, files, created, phase1_transcript, phase2_size,
                   size_calls, generator_arg, mpc, serialized_mpc_parameters,
                   serialized_query_parameters, contribution_hash, i, serialized_chunk, short_writes>>

Next ==
    \/ NewInner
    \/ NewOuter
    \/ OpenTranscript
    \/ MapTranscript
    \/ ceremony_size
    \/ Generate
    \/ SerializeFull
    \/ SerializeQuery
    \/ CreateFull
    \/ WriteFull
    \/ Hash
    \/ CreateQuery
    \/ WriteQuery
    \/ CreateList
    \/ SerializeChunk
    \/ CreateChunk
    \/ WriteChunk
    \/ WriteList
    \/ CreateHash
    \/ WriteHash
    \/ Finish

Spec == Init /\ [][Next]_vars

\* ------------------------------------------------------------ properties
Finished == result # "none"
Failed == result \in {"Err", "panic"}

\* ceremony_size has returned
SizeComputed == pc \notin {"new", "open", "map", "size"}

\* new_from_buffer_chunked has been called
GeneratorCalled == generator_arg # 0

\* the state of the disk before the run
InitialFiles == (opt.phase1_fname :> TranscriptBytes(opt.phase1_powers))

Last(s) == s[Len(s)]

RECURSIVE ChunkLines(_, _)
\* the lines of chunks 0 .. n-1, in index order
ChunkLines(stem, n) == IF n = 0 THEN <<>>
                       ELSE ChunkLines(stem, n - 1) \o ChunkLine(stem, n - 1)

\* the names the run creates when it succeeds, in the order of the source
FinalArtifacts ==
    <<FullName(opt.challenge_fname), QueryName(opt.challenge_fname), ChunkListName>>
    \o [k \in 1..Len(mpc.chunks) |-> ChunkName(opt.challenge_fname, k - 1)]
    \o <<HashFileName(opt.challenge_hash_fname)>>

\* C1: once ceremony_size has returned, its value is a power of two, is at
\* least max(constraints, public + private + 1), and no smaller power of two
\* is (half of it is below the required value).
C1_SmallestPowerOfTwo ==
    SizeComputed =>
        /\ IsPowerOfTwo(phase2_size)
        /\ phase2_size >= Required(circuit)
        /\ phase2_size \div 2 < Required(circuit)

\* C2: when 1 << phase1_powers is below the ceremony size, the run never gets
\* past the call of the generator and never returns Ok, and nothing has been
\* created or written on disk.
C2_InsufficientTranscriptWritesNothing ==
    (SizeComputed /\ Pow2(opt.phase1_powers) < phase2_size) =>
        /\ pc = "generate"
        /\ result \in {"none", "panic"}
        /\ (GeneratorCalled => result = "panic")
        /\ created = <<>>
        /\ files = InitialFiles

\* C2 witness: the generator was called with a non-zero chunk size on a
\* transcript with too few powers, and the run has failed there.
C2_Witness ==
    /\ SizeComputed
    /\ Pow2(opt.phase1_powers) < phase2_size
    /\ opt.chunk_size > 0
    /\ GeneratorCalled
    /\ pc = "generate"
    /\ Failed

\* C3: a finished run has succeeded with every final artifact on disk, or
\* has failed with none of them created.
C3_AllOrNothing ==
    Finished =>
        \/ result = "Ok" /\ created = FinalArtifacts
        \/ Failed /\ created = <<>>

\* C4: the transcript file holds the same content at every point of the run.
C4_TranscriptUnchanged ==
    /\ opt.phase1_fname \in DOMAIN files
    /\ files[opt.phase1_fname] = TranscriptBytes(opt.phase1_powers)

\* C5: after a successful run the content of the hash file is calculate_hash
\* of the content of the <challenge>.full file.
C5_HashOfFullFile ==
    result = "Ok" =>
        /\ FullName(opt.challenge_fname) \in DOMAIN files
        /\ Last(created) \in DOMAIN files
        /\ files[Last(created)] = calculate_hash(files[FullName(opt.challenge_fname)])

\* C5 witness: a successful run whose query serialization differs from the
\* full one, with both files on disk.
C5_Witness ==
    /\ result = "Ok"
    /\ serialized_query_parameters # serialized_mpc_parameters
    /\ Len(files[FullName(opt.challenge_fname)]) > 2
    /\ files[Last(created)] = contribution_hash

\* C6: the file the hash is written to is named <hash stem>.query, with
\* nothing after it.
C6_HashFileNamedStemQuery ==
    result = "Ok" => Last(created) = opt.challenge_hash_fname \o Dot \o S_query

\* C7: at every point of the run the chunk list holds exactly the complete
\* lines of the chunks written so far, each of them the name of a chunk file
\* that holds its whole serialization; after a successful run with n chunks
\* the chunk files were created in ascending index order and the chunk list
\* holds exactly the n lines <challenge>.0 .. <challenge>.(n-1).
C7_ManifestListsChunks ==
    /\ (\E k \in 1..Len(created) : created[k] = ChunkListName) =>
          /\ files[ChunkListName] = as_bytes(ChunkLines(opt.challenge_fname, i))
          /\ \A k \in 0..(i - 1) :
                /\ ChunkName(opt.challenge_fname, k) \in DOMAIN files
                /\ files[ChunkName(opt.challenge_fname, k)] = Serialize(mpc.chunks[k + 1])
    /\ result = "Ok" =>
          /\ i = Len(mpc.chunks)
          /\ SubSeq(created, 4, Len(created) - 1) =
                [k \in 1..Len(mpc.chunks) |-> ChunkName(opt.challenge_fname, k - 1)]

\* C8: with chunk_size = 0 the run is rejected before the transcript is
\* opened, before the circuit is evaluated and before the generator is called.
C8_ZeroChunkSizeRejectedEarly ==
    opt.chunk_size = 0 =>
        /\ phase1_transcript = "closed"
        /\ size_calls = 0
        /\ ~GeneratorCalled

\* C9: a run that fails returns Err (it ends no other way), and a run that
\* returns Ok has ignored no failure.
C9_FailuresReturnErr ==
    /\ result # "panic"
    /\ (result = "Ok" => short_writes = 0)

\* C10 as stated: the ceremony size is computed once, before the transcript
\* is opened or mapped, and the generator receives that value.
C10_SizeBeforeTranscriptOpen ==
    /\ size_calls <= 1
    /\ (phase1_transcript # "closed" => size_calls = 1)
    /\ (GeneratorCalled => generator_arg = phase2_size)

\* C10 amended: the ceremony size is computed at most once, after the
\* transcript has been opened and mapped and before the generator is called,
\* and the generator receives that value.
C10_SizeBeforeGenerator ==
    /\ size_calls <= 1
    /\ (size_calls = 1 => phase1_transcript = "mapped")
    /\ (SizeComputed => size_calls = 1)
    /\ (GeneratorCalled => size_calls = 1 /\ generator_arg = phase2_size)
    /\ (mpc # NoParameters => GeneratorCalled /\ Len(mpc.full) = phase2_size)

\* C10 witness: the generator has returned the parameters of a ceremony of
\* more than one power.
C10_Witness ==
    /\ GeneratorCalled
    /\ mpc # NoParameters
    /\ phase2_size > 1
    /\ size_calls = 1

====
